---- MODULE Spec2Model ----
(***************************************************************************)
(* The connection and state-synchronisation core of the TARS dashboard:   *)
(* TarsProvider (dashboard/src/context/ConnectionContext.tsx), the send    *)
(* handler of MessagePanel, and the WebSocketManager the provider drives.  *)
(*                                                                         *)
(* JavaScript values are encoded so that every comparison is well typed:   *)
(*   - a string is a sequence of character codes (naturals >= 1);          *)
(*   - `undefined` in a string-valued place is the sequence Undef;         *)
(*   - a number is an integer >= 0, `undefined` in a number-valued place   *)
(*     is UndefNum and NaN is NaN.                                         *)
(* React state: a setter called with an updater function queues the        *)
(* updater; React applies the queue, in order, at the next render.  The    *)
(* updaters of tasks, stats and subsystems read only their argument and    *)
(* values captured when the event was handled, so they are applied here    *)
(* when they are queued.  The updaters of thinkingBlocks, messages and     *)
(* actionLog read a ref (currentThinkRef, blockIdRef, msgIdRef,            *)
(* actionIdRef) when they RUN, so their queue is kept (pending) and        *)
(* applied by Render; connectionState is read by closures created at       *)
(* render, so its queued value is kept as well.                            *)
(***************************************************************************)
EXTENDS Integers, Sequences, FiniteSets, TLC

\* ---------------------------------------------------------------- bounds
MaxEvents == 1      \* Spec: inbound events handled
MaxCmds == 1        \* Spec: commands and heartbeat ticks issued
MaxRouted == 2      \* SpecEvents: inbound events handled
MaxSends == 1       \* SpecEvents: sendMessage calls
MaxTaskEvents == 5  \* SpecTasks: task events handled
MaxTraceEvents == 5 \* SpecThinking: trace events handled
MaxToolEvents == 4  \* SpecTools: tool events handled
MaxSession == 3     \* SpecSession: inbound events handled
MaxArms == 2        \* SpecKillSwitch: arming clicks
MaxAgentEvents == 2 \* SpecKillSwitch: inbound events handled
MaxPointer == 3     \* SpecPointer: events handled and commands issued
MaxNotified == 3    \* SpecNotify: inbound events handled
MaxChat == 2        \* SpecChat: imessage events handled
MaxDrops == 1       \* SpecSession: transport failures
MaxIssued == 2      \* SpecCommands: commands and heartbeat ticks issued
MaxTicks == 2       \* SpecConn: heartbeat ticks
MaxFailures == 2    \* transport failures
MaxMounts == 2      \* times the provider's effect is run
MaxPending == 3     \* queued updaters between two renders

\* ------------------------------------------------------- program constants
DetailLimit == 200     \* ActionLogEntry.detail: substring(0, 200)
ResponseLimit == 100   \* task_completed notification: substring(0, 100)

\* ------------------------------------------------------------ JS values
Undef == <<0>>          \* `undefined` where a string is expected
UndefNum == 0 - 1       \* `undefined` where a number is expected
NaN == 0 - 2            \* NaN
EmptyStr == <<>>        \* ''

\* The characters of the literal a JS conversion produces.
UndefinedText == <<117, 110, 100, 101, 102, 105, 110, 101, 100>>  \* String(undefined)
Placeholder == <<45, 45>>                                         \* '--'
ImessageSrc == <<105, 109>>                                       \* 'imessage'
DoneText == <<68, 111, 110, 101>>                                 \* 'Done'
UnknownError == <<85, 110, 107>>                                  \* 'Unknown error'
KillBody == <<75, 105, 108, 108>>                                 \* 'Kill switch activated'

Min(a, b) == IF a <= b THEN a ELSE b

\* x || d on a string-valued x: undefined and '' are falsy.
OrStr(x, d) == IF x = Undef \/ x = EmptyStr THEN d ELSE x

\* x || d on a number-valued x: undefined, NaN and 0 are falsy.
OrNum(x, d) == IF x = UndefNum \/ x = NaN \/ x = 0 THEN d ELSE x

\* a + b on numbers: undefined + n is NaN, and NaN is absorbing.
AddNum(a, b) == IF a < 0 \/ b < 0 THEN NaN ELSE a + b

\* String(x): undefined becomes the text 'undefined'.
ToStr(x) == IF x = Undef THEN UndefinedText ELSE x

\* a + b on strings: an undefined operand is converted by String().
Concat(a, b) == ToStr(a) \o ToStr(b)

\* s.substring(0, n)
Substring0(s, n) == SubSeq(s, 1, Min(n, Len(s)))

\* A string of n characters whose i-th character depends on i.
Text(n) == [i \in 1..n |-> 1 + (i % 7)]

\* ------------------------------------------------------------ the state
VARIABLES
  \* WebSocketManager (lib/ws) and the provider's effect
  mounted,          \* the "Initialize WebSocket" effect has run and is not cleaned up
  wsRef,            \* wsRef.current: "null" or "ws"
  wsState,          \* the manager's ConnectionState
  retryTimers,      \* pending reconnect timers of the manager
  attempts,         \* consecutive failed attempts (the backoff counter)
  mounts,           \* how often the effect has run
  failures,         \* transport failures so far
  cleanups,         \* the cleanup calls of the last unmount, in the order they ran
  \* React state of TarsProvider
  connectionState,  \* as committed by the last render
  pendingConn,      \* value queued by setConnectionState, "none" when none
  subsystems, tasks, thinkingBlocks, messages, actionLog, stats,
  currentModel, memoryContext, memoryPreferences,
  \* refs
  taskIdRef, msgIdRef, actionIdRef, blockIdRef, currentThinkRef,
  \* React's update queue
  pending,          \* queued thinkingBlocks/messages/actionLog updaters, oldest first
  pendingThrow,     \* an updater queued on another slice throws when it runs
  fatal,            \* a render threw: React unmounted the provider
  \* the outside
  sent,             \* frames the transport transmitted, oldest first
  notified,         \* sendBrowserNotification calls, oldest first
  permission,       \* the browser's notification permission: granted or denied
  \* KillSwitch
  armed,            \* the component's state `armed`
  disarmTimers,     \* pending auto-disarm timeouts, each named by its arming click
  \* history of the KillSwitch
  arms,             \* arming clicks so far
  armedBy,          \* the arming click that armed the switch, 0 when disarmed
  raised,           \* some handleEvent call threw
  \* history
  evCount,          \* events handled; also the clock read by Date.now()
  cmdCount,         \* commands and heartbeat ticks issued
  last,             \* the last operation and its input
  lastTaskEv,       \* the last task event that took effect: none/received/completed
  open,             \* block number opened by the last thinking_start, 0 after tool_called
  want,             \* block number -> concatenation of the deltas handled while it was open
  textless,         \* block numbers that were open when a delta without text was handled
  created,          \* blocks whose creation was handled (with data)
  batched,          \* an event was handled while updaters were queued
  handed            \* frames handed to send, each with the manager's state at that moment

connVars == <<mounted, wsRef, wsState, retryTimers, attempts, mounts, failures,
              cleanups, connectionState, pendingConn>>
dataVars == <<tasks, thinkingBlocks, messages, actionLog, stats,
              currentModel, memoryContext, memoryPreferences>>
refVars == <<taskIdRef, msgIdRef, actionIdRef, blockIdRef, currentThinkRef>>
queueVars == <<pending, pendingThrow, fatal>>
switchVars == <<armed, disarmTimers, arms, armedBy>>
histVars == <<lastTaskEv, open, want, textless, created>>
vars == <<connVars, subsystems, dataVars, refVars, queueVars, sent, notified, permission,
          switchVars, raised,
          evCount, cmdCount, last, histVars, batched, handed>>

ConnectionStates == {"disconnected", "connecting", "connected", "reconnecting"}

\* A block id `${prefix}-${n}`; NullId is currentThinkRef.current = null.
BlockId(prefix, n) == [prefix |-> prefix, n |-> n]
NullId == BlockId("null", 0)

\* A ThinkingBlock; a key the variant does not carry reads as undefined.
Block(id, type, model, text, toolName, toolInput, content, success, duration) ==
  [id |-> id, type |-> type, model |-> model, text |-> text, toolName |-> toolName,
   toolInput |-> toolInput, content |-> content, success |-> success,
   duration |-> duration]

defaultStats ==
  [defined |-> TRUE, total_events |-> 0, total_tokens_in |-> 0, total_tokens_out |-> 0,
   total_cost |-> 0, actions_success |-> 0, actions_failed |-> 0, start_time |-> 0,
   uptime_seconds |-> 0, tool_usage |-> 0, model_usage |-> 0]

\* setStats(undefined): the snapshot is not an object any more.
undefinedStats ==
  [defined |-> FALSE, total_events |-> UndefNum, total_tokens_in |-> UndefNum,
   total_tokens_out |-> UndefNum, total_cost |-> UndefNum, actions_success |-> UndefNum,
   actions_failed |-> UndefNum, start_time |-> UndefNum, uptime_seconds |-> UndefNum,
   tool_usage |-> UndefNum, model_usage |-> UndefNum]

Op(name, text, num) == [op |-> name, text |-> text, num |-> num]

Init ==
  /\ mounted = FALSE /\ wsRef = "null" /\ wsState = "disconnected"
  /\ retryTimers = 0 /\ attempts = 0 /\ mounts = 0 /\ failures = 0 /\ cleanups = <<>>
  /\ connectionState = "disconnected" /\ pendingConn = "none"
  /\ subsystems = [websocket |-> "disconnected", agent |-> "offline",
                   mac |-> "unreachable", claude |-> "idle"]
  /\ tasks = <<>> /\ thinkingBlocks = <<>> /\ messages = <<>> /\ actionLog = <<>>
  /\ stats = defaultStats
  /\ currentModel = Placeholder /\ memoryContext = EmptyStr /\ memoryPreferences = EmptyStr
  /\ taskIdRef = 0 /\ msgIdRef = 0 /\ actionIdRef = 0 /\ blockIdRef = 0
  /\ currentThinkRef = NullId
  /\ pending = <<>> /\ pendingThrow = FALSE /\ fatal = FALSE
  /\ sent = <<>> /\ notified = <<>> /\ permission = "granted" /\ raised = FALSE
  /\ evCount = 0 /\ cmdCount = 0 /\ last = Op("init", EmptyStr, 0)
  /\ lastTaskEv = "none" /\ open = 0 /\ want = <<>> /\ textless = {}
  /\ created = 0 /\ batched = FALSE /\ handed = <<>>
  /\ armed = FALSE /\ disarmTimers = {} /\ arms = 0 /\ armedBy = 0

\* ------------------------------------------------- handleEvent: helpers

\* Date.now(): the clock advances with every handled event.
Now == evCount + 1

\* prev.map(t => t.status === 'active' ? {...t, status: 'completed', completedAt: now} : t)
\* CompleteActive that stamps completedAt on every task
CompleteActiveRestamps(prev, now) ==
  [i \in 1..Len(prev) |->
     [prev[i] EXCEPT !.status = "completed", !.completedAt = now]]

CompleteActive(prev, now) ==
  [i \in 1..Len(prev) |->
     IF prev[i].status = "active"
     THEN [prev[i] EXCEPT !.status = "completed", !.completedAt = now]
     ELSE prev[i]]

\* PrependTask without the completion of the prior active task
PrependTaskKeepsActive(prev, task, now) == <<task>> \o prev

\* The setTasks updater of task_received: [task, ...updated]
PrependTask(prev, task, now) == <<task>> \o CompleteActive(prev, now)

\* An event can be delivered: the provider is alive and the transport is open.
Deliverable == mounted /\ ~fatal /\ wsState = "connected" /\ Len(pending) < MaxPending

\* What every handled event records.
Handled(name, text, num) ==
  /\ evCount' = evCount + 1
  /\ last' = Op(name, text, num)
  /\ batched' = (batched \/ pending # <<>>)
  /\ UNCHANGED handed

Permissions == { "granted", "denied" }

\* sendBrowserNotification that raises when it cannot show the notification
sendBrowserNotificationRaising(perm) == IF perm = "granted" THEN "shown" ELSE "thrown"

\* sendBrowserNotification (lib/notifications): fire-and-forget; a notification that
\* cannot be shown (permission not granted) is dropped and the call returns.
sendBrowserNotification(perm) == IF perm = "granted" THEN "shown" ELSE "dropped"

\* A call of sendBrowserNotification(title, body) as the last statement of a case:
\* what it raises leaves handleEvent.
Notify(title, body) ==
  LET outcome == sendBrowserNotification(permission) IN
  /\ notified' = Append(notified, [title |-> title, body |-> body, outcome |-> outcome])
  /\ raised' = (raised \/ outcome = "thrown")
  /\ UNCHANGED <<permission, switchVars>>

Queue(u) == pending' = Append(pending, u)
AppendBlock(b) == [kind |-> "append", block |-> b, text |-> EmptyStr]

\* prev => [...prev, {id: `${prefix}-${blockIdRef.current}`, ...}]: the number of the
\* id is read when the updater runs.
AppendNumbered(b) == [kind |-> "number", block |-> b, text |-> EmptyStr]

\* prev => [...prev, {id: msgIdRef.current, text, sender, ...}]
AppendMessage(text, sender) == [kind |-> "message", text |-> text, sender |-> sender]

\* prev => [...prev, {id: actionIdRef.current, ...}]
AppendEntry(e) == [kind |-> "entry", entry |-> e]
Delta(text) == [kind |-> "delta", block |-> NullId, text |-> text]
DeltaNoData == [kind |-> "deltaNoData", block |-> NullId, text |-> EmptyStr]
Throwing == [kind |-> "throw", block |-> NullId, text |-> EmptyStr]

\* ---------------------------------------------------- handleEvent: arms

\* case 'task_received'
HandleTaskReceived(d) ==
  /\ Deliverable
  /\ Handled("task_received", d.task, IF d.present THEN 1 ELSE 0)
  /\ taskIdRef' = taskIdRef + 1
  /\ IF d.present
     THEN /\ tasks' = PrependTask(tasks,
                        [id |-> taskIdRef', text |-> d.task,
                         source |-> OrStr(d.source, ImessageSrc), status |-> "active",
                         startedAt |-> Now, completedAt |-> UndefNum], Now)
          /\ subsystems' = [subsystems EXCEPT !.agent = "working"]
          /\ Notify("TARS // New Task", d.task)
          /\ lastTaskEv' = "received"
     ELSE \* data.task throws before anything is queued
          /\ raised' = TRUE
          /\ UNCHANGED <<tasks, subsystems, notified, permission, switchVars, lastTaskEv>>
  /\ UNCHANGED <<connVars, thinkingBlocks, messages, actionLog, stats, currentModel,
                 memoryContext, memoryPreferences, msgIdRef, actionIdRef, blockIdRef,
                 currentThinkRef, queueVars, sent, cmdCount, open, want, textless,
                 created>>

\* case 'task_completed'
HandleTaskCompleted(d) ==
  /\ Deliverable
  /\ Handled("task_completed", d.response, IF d.present THEN 1 ELSE 0)
  /\ tasks' = CompleteActive(tasks, Now)
  /\ subsystems' = [subsystems EXCEPT !.agent = "online"]
  /\ lastTaskEv' = "completed"
  /\ IF d.present
     THEN /\ Notify("TARS // Task Complete",
                    IF d.response = Undef THEN DoneText
                    ELSE OrStr(Substring0(d.response, ResponseLimit), DoneText))
     ELSE \* data.response throws while the notification's arguments are evaluated
          /\ raised' = TRUE
          /\ UNCHANGED <<notified, permission, switchVars>>
  /\ UNCHANGED <<connVars, thinkingBlocks, messages, actionLog, stats, currentModel,
                 memoryContext, memoryPreferences, refVars, queueVars, sent, cmdCount,
                 open, want, textless, created>>

\* case 'thinking_start'
HandleThinkingStart(d) ==
  /\ Deliverable
  /\ Handled("thinking_start", d.model, IF d.present THEN 1 ELSE 0)
  /\ blockIdRef' = blockIdRef + 1
  /\ currentThinkRef' = BlockId("think", blockIdRef')
  /\ want' = Append(want, EmptyStr)
  /\ IF d.present
     THEN /\ Queue(AppendBlock(Block(BlockId("think", blockIdRef'), "thinking",
                     OrStr(d.model, EmptyStr), EmptyStr, Undef, Undef, Undef,
                     UndefNum, UndefNum)))
          /\ currentModel' = OrStr(d.model, EmptyStr)
          /\ subsystems' = [subsystems EXCEPT !.claude = "active"]
          /\ open' = blockIdRef'
          /\ created' = created + 1
          /\ UNCHANGED raised
     ELSE \* the queued updater reads data.model; setCurrentModel(data.model) throws
          /\ Queue(Throwing)
          /\ raised' = TRUE
          /\ UNCHANGED <<currentModel, subsystems, open, created>>
  /\ UNCHANGED <<connVars, tasks, thinkingBlocks, messages, actionLog, stats,
                 memoryContext, memoryPreferences, taskIdRef, msgIdRef, actionIdRef,
                 pendingThrow, fatal, sent, notified, permission, switchVars, cmdCount,
                 lastTaskEv, textless>>

\* case 'thinking'
HandleThinking(d) ==
  /\ Deliverable
  /\ Handled("thinking", d.text, IF d.present THEN 1 ELSE 0)
  /\ Queue(IF d.present THEN Delta(d.text) ELSE DeltaNoData)
  /\ IF open = 0 THEN UNCHANGED <<want, textless>>
     ELSE IF d.present /\ d.text # Undef
     THEN want' = [want EXCEPT ![open] = @ \o d.text] /\ UNCHANGED textless
     ELSE textless' = textless \cup {open} /\ UNCHANGED want
  /\ UNCHANGED <<connVars, subsystems, dataVars, refVars, pendingThrow, fatal, sent,
                 notified, permission, switchVars, raised, cmdCount, lastTaskEv, open, created>>

\* case 'tool_called'
HandleToolCalled(d) ==
  /\ Deliverable
  /\ Handled("tool_called", d.tool_name, IF d.present THEN 1 ELSE 0)
  /\ blockIdRef' = blockIdRef + 1
  /\ currentThinkRef' = NullId
  /\ want' = Append(want, EmptyStr)
  /\ open' = 0
  /\ IF d.present
     THEN /\ Queue(AppendNumbered(Block(BlockId("tool", 0), "tool_call", Undef,
                     Undef, d.tool_name, d.tool_input, Undef, UndefNum, UndefNum)))
          /\ created' = created + 1
     ELSE /\ Queue(Throwing)
          /\ UNCHANGED created
  /\ UNCHANGED <<connVars, subsystems, dataVars, taskIdRef, msgIdRef, actionIdRef,
                 pendingThrow, fatal, sent, notified, permission, switchVars, raised,
                 cmdCount, lastTaskEv,
                 textless>>

\* `null` where a number is expected (duration: data.duration || null)
NullNum == 0 - 3

\* Detail without the truncation
DetailWhole(content) == ToStr(OrStr(content, EmptyStr))

\* String(data.content || '').substring(0, 200)
Detail(content) == Substring0(ToStr(OrStr(content, EmptyStr)), DetailLimit)

\* case 'tool_result'
HandleToolResult(d) ==
  /\ Deliverable
  /\ Handled("tool_result", d.content, IF d.present THEN 1 ELSE 0)
  /\ blockIdRef' = blockIdRef + 1
  /\ actionIdRef' = actionIdRef + 1
  /\ want' = Append(want, EmptyStr)
  /\ subsystems' = [subsystems EXCEPT !.claude = "idle"]
  /\ IF d.present
     THEN /\ pending' = pending \o
               << AppendNumbered(Block(BlockId("result", 0), "tool_result", Undef, Undef,
                                       d.tool_name, Undef, d.content, d.success,
                                       d.duration)),
                  AppendEntry([id |-> 0,
                               toolName |-> OrStr(d.tool_name, Placeholder),
                               detail |-> Detail(d.content),
                               success |-> d.success,
                               duration |-> OrNum(d.duration, NullNum)]) >>
          /\ created' = created + 1
     ELSE \* both queued updaters read a field of the absent data
          /\ pending' = pending \o <<Throwing, Throwing>>
          /\ UNCHANGED created
  /\ UNCHANGED <<connVars, tasks, thinkingBlocks, messages, actionLog, stats,
                 currentModel, memoryContext, memoryPreferences, taskIdRef, msgIdRef,
                 currentThinkRef, pendingThrow, fatal, sent, notified, permission,
                 switchVars, raised, cmdCount,
                 lastTaskEv, open, textless>>

\* A ChatMessage
ChatMessage(id, text, sender, now) ==
  [id |-> id, text |-> text, sender |-> sender, timestamp |-> now]

\* What the imessage arms leave alone.
MessageOnly ==
  UNCHANGED <<connVars, subsystems, dataVars, taskIdRef, actionIdRef, blockIdRef,
              currentThinkRef, pendingThrow, fatal, sent, cmdCount, histVars>>

\* case 'imessage_sent'
\* imessage_sent that skips a text the transcript or the queue already holds
HandleImessageSentDeduplicated(d) ==
  /\ Deliverable
  /\ Handled("imessage_sent", d.message, IF d.present THEN 1 ELSE 0)
  /\ msgIdRef' = msgIdRef + 1
  /\ IF d.present
     THEN IF \/ \E i \in DOMAIN messages : messages[i].text = d.message
             \/ \E i \in DOMAIN pending :
                   pending[i].kind = "message" /\ pending[i].text = d.message
          THEN UNCHANGED pending
          ELSE Queue(AppendMessage(d.message, "tars"))
     ELSE Queue(Throwing)
  /\ MessageOnly
  /\ UNCHANGED <<notified, permission, switchVars, raised>>

HandleImessageSent(d) ==
  /\ Deliverable
  /\ Handled("imessage_sent", d.message, IF d.present THEN 1 ELSE 0)
  /\ msgIdRef' = msgIdRef + 1
  /\ IF d.present
     THEN Queue(AppendMessage(d.message, "tars"))
     ELSE Queue(Throwing)   \* the queued updater reads data.message
  /\ MessageOnly
  /\ UNCHANGED <<notified, permission, switchVars, raised>>

\* case 'imessage_received'
HandleImessageReceived(d) ==
  /\ Deliverable
  /\ Handled("imessage_received", d.message, IF d.present THEN 1 ELSE 0)
  /\ msgIdRef' = msgIdRef + 1
  /\ IF d.present
     THEN /\ Queue(AppendMessage(d.message, "user"))
          /\ Notify("TARS // iMessage", d.message)
     ELSE \* the queued updater throws later; the notification's argument throws now
          /\ Queue(Throwing)
          /\ raised' = TRUE
          /\ UNCHANGED <<notified, permission, switchVars>>
  /\ MessageOnly

\* The setStats updater of api_call
AddTokens(prev, tokens_in, tokens_out) ==
  [prev EXCEPT !.total_tokens_in = AddNum(@, OrNum(tokens_in, 0)),
               !.total_tokens_out = AddNum(@, OrNum(tokens_out, 0))]

\* case 'api_call'
HandleApiCall(d) ==
  /\ Deliverable
  /\ Handled("api_call", d.model, IF d.present THEN 1 ELSE 0)
  /\ IF d.present
     THEN /\ currentModel' = OrStr(d.model, EmptyStr)
          /\ IF stats.defined
             THEN stats' = AddTokens(stats, d.tokens_in, d.tokens_out)
                  /\ UNCHANGED pendingThrow
             ELSE \* prev is undefined: prev.total_tokens_in throws in the updater
                  pendingThrow' = TRUE /\ UNCHANGED stats
          /\ UNCHANGED raised
     ELSE raised' = TRUE /\ UNCHANGED <<currentModel, stats, pendingThrow>>
  /\ UNCHANGED <<connVars, subsystems, tasks, thinkingBlocks, messages, actionLog,
                 memoryContext, memoryPreferences, refVars, pending, fatal, sent,
                 notified, permission, switchVars, cmdCount, histVars>>

\* case 'status_change': data.status || 'online'
HandleStatusChange(d) ==
  /\ Deliverable
  /\ Handled("status_change", EmptyStr, IF d.present THEN 1 ELSE 0)
  /\ IF d.present
     THEN /\ subsystems' = [subsystems EXCEPT
                              !.agent = IF d.status = "undefined" THEN "online"
                                        ELSE d.status]
          /\ UNCHANGED pendingThrow
     ELSE pendingThrow' = TRUE /\ UNCHANGED subsystems
  /\ UNCHANGED <<connVars, dataVars, refVars, pending, fatal, sent, notified, permission,
                 switchVars, raised,
                 cmdCount, histVars>>

\* case 'error': data.message || data.error || 'Unknown error'
\* error that also clears the current-thinking pointer
HandleErrorClearsPointer(d) ==
  /\ Deliverable
  /\ Handled("error", d.message, IF d.present THEN 1 ELSE 0)
  /\ blockIdRef' = blockIdRef + 1
  /\ currentThinkRef' = NullId
  /\ want' = Append(want, EmptyStr)
  /\ IF d.present
     THEN /\ Queue(AppendNumbered(Block(BlockId("err", 0), "error", Undef,
                     OrStr(d.message, OrStr(d.error, UnknownError)), Undef, Undef,
                     Undef, UndefNum, UndefNum)))
          /\ created' = created + 1
     ELSE Queue(Throwing) /\ UNCHANGED created
  /\ UNCHANGED <<connVars, subsystems, dataVars, taskIdRef, msgIdRef, actionIdRef,
                 pendingThrow, fatal, sent, notified, permission, switchVars, raised, cmdCount,
                 lastTaskEv, open, textless>>

HandleError(d) ==
  /\ Deliverable
  /\ Handled("error", d.message, IF d.present THEN 1 ELSE 0)
  /\ blockIdRef' = blockIdRef + 1
  /\ want' = Append(want, EmptyStr)
  /\ IF d.present
     THEN /\ Queue(AppendNumbered(Block(BlockId("err", 0), "error", Undef,
                     OrStr(d.message, OrStr(d.error, UnknownError)), Undef, Undef,
                     Undef, UndefNum, UndefNum)))
          /\ created' = created + 1
     ELSE Queue(Throwing) /\ UNCHANGED created
  /\ UNCHANGED <<connVars, subsystems, dataVars, taskIdRef, msgIdRef, actionIdRef,
                 currentThinkRef, pendingThrow, fatal, sent, notified, permission,
                 switchVars, raised, cmdCount,
                 lastTaskEv, open, textless>>

\* case 'stats': setStats(data as TarsStats)
HandleStats(d) ==
  /\ Deliverable
  /\ Handled("stats", EmptyStr, IF d.defined THEN 1 ELSE 0)
  /\ stats' = d
  /\ UNCHANGED <<connVars, subsystems, tasks, thinkingBlocks, messages, actionLog,
                 currentModel, memoryContext, memoryPreferences, refVars, queueVars,
                 sent, notified, permission, switchVars, raised, cmdCount, histVars>>

\* case 'memory_data'
HandleMemoryData(d) ==
  /\ Deliverable
  /\ Handled("memory_data", d.context, IF d.present THEN 1 ELSE 0)
  /\ IF d.present
     THEN /\ memoryContext' = OrStr(d.context, EmptyStr)
          /\ memoryPreferences' = OrStr(d.preferences, EmptyStr)
          /\ UNCHANGED raised
     ELSE raised' = TRUE /\ UNCHANGED <<memoryContext, memoryPreferences>>
  /\ UNCHANGED <<connVars, subsystems, tasks, thinkingBlocks, messages, actionLog, stats,
                 currentModel, refVars, queueVars, sent, notified, permission,
                 switchVars, cmdCount, histVars>>

\* case 'kill_switch' (reads nothing of data)
HandleKillSwitch ==
  /\ Deliverable
  /\ Handled("kill_switch", EmptyStr, 1)
  /\ subsystems' = [subsystems EXCEPT !.agent = "killed"]
  /\ Notify("TARS // KILLED", KillBody)
  /\ UNCHANGED <<connVars, dataVars, refVars, queueVars, sent, cmdCount, histVars>>

\* HandleUnrecognized that treats the event as a kill_switch
HandleUnrecognizedKills ==
  /\ Deliverable
  /\ Handled("unrecognized", EmptyStr, 1)
  /\ subsystems' = [subsystems EXCEPT !.agent = "killed"]
  /\ UNCHANGED <<connVars, dataVars, refVars, queueVars, sent, notified, permission,
                 switchVars, raised,
                 cmdCount, histVars>>

\* a type with no case: the switch falls through
HandleUnrecognized ==
  /\ Deliverable
  /\ Handled("unrecognized", EmptyStr, 1)
  /\ UNCHANGED <<connVars, subsystems, dataVars, refVars, queueVars, sent, notified,
                 permission, switchVars,
                 raised, cmdCount, histVars>>

\* ------------------------------------------------------------- rendering

\* prev.findIndex(b => b.id === id): the first such index, 0 for JS's -1
FindIndex(prev, id) ==
  IF \E i \in 1..Len(prev) : prev[i].id = id
  THEN CHOOSE i \in 1..Len(prev) :
         prev[i].id = id /\ \A j \in 1..(i - 1) : prev[j].id # id
  ELSE 0

\* AppendDelta that ignores the pointer and appends to the newest thinking block
AppendDeltaToNewest(prev, cur, text) ==
  LET S == {i \in 1..Len(prev) : prev[i].type = "thinking"} IN
  IF S = {} THEN prev
  ELSE LET idx == CHOOSE i \in S : \A j \in S : j <= i IN
       [prev EXCEPT ![idx].text = Concat(OrStr(@, EmptyStr), text)]

\* AppendDelta that replaces the block's text by the delta
AppendDeltaReplaces(prev, cur, text) ==
  LET idx == FindIndex(prev, cur) IN
  IF idx = 0 THEN prev
  ELSE [prev EXCEPT ![idx].text = ToStr(text)]

\* The setThinkingBlocks updater of `thinking`, run with the pointer's value `cur`.
AppendDelta(prev, cur, text) ==
  LET idx == FindIndex(prev, cur) IN
  IF idx = 0 THEN prev
  ELSE [prev EXCEPT ![idx].text = Concat(OrStr(@, EmptyStr), text)]

\* React runs the queued updaters in order.  `prev` holds the three slices; `cur`
\* is currentThinkRef.current, and the id counters are the refs, as they are now.
RECURSIVE ApplyQueue(_, _, _)
ApplyQueue(prev, q, cur) ==
  IF q = <<>> THEN [prev EXCEPT !.threw = FALSE]
  ELSE LET u == Head(q) IN
       CASE u.kind = "append" ->
              ApplyQueue([prev EXCEPT !.blocks = Append(@, u.block)], Tail(q), cur)
         [] u.kind = "number" ->
              ApplyQueue([prev EXCEPT !.blocks =
                            Append(@, [u.block EXCEPT !.id.n = blockIdRef])],
                         Tail(q), cur)
         [] u.kind = "message" ->
              ApplyQueue([prev EXCEPT !.messages =
                            Append(@, ChatMessage(msgIdRef, u.text, u.sender, Now))],
                         Tail(q), cur)
         [] u.kind = "entry" ->
              ApplyQueue([prev EXCEPT !.log =
                            Append(@, [u.entry EXCEPT !.id = actionIdRef])],
                         Tail(q), cur)
         [] u.kind = "delta" ->
              ApplyQueue([prev EXCEPT !.blocks = AppendDelta(@, cur, u.text)],
                         Tail(q), cur)
         [] u.kind = "deltaNoData" ->
              IF FindIndex(prev.blocks, cur) = 0 THEN ApplyQueue(prev, Tail(q), cur)
              ELSE [prev EXCEPT !.threw = TRUE]
         [] OTHER -> [prev EXCEPT !.threw = TRUE]

\* A cleanup call and what it releases.
Cleanup(call, releases) == [call |-> call, releases |-> releases]

\* The cleanups in the reverse order
CleanupIntervalFirst ==
  << Cleanup("clearInterval", {"interval"}),
     Cleanup("ws.disconnect", {"transport", "timer"}) >>

\* Unmounting runs the effects' cleanups in the order the effects are declared:
\* ws.disconnect() (closes the transport, cancels the reconnect timer), then
\* clearInterval(interval).
CleanupOrder ==
  << Cleanup("ws.disconnect", {"transport", "timer"}),
     Cleanup("clearInterval", {"interval"}) >>

\* A render of TarsProvider.  An updater that throws makes the render throw: React
\* unmounts the provider and runs the effects' cleanups (ws.disconnect()).
Render ==
  /\ ~fatal
  /\ pending # <<>> \/ pendingThrow \/ pendingConn # "none"
  /\ LET r == ApplyQueue([blocks |-> thinkingBlocks, messages |-> messages,
                          log |-> actionLog, threw |-> FALSE],
                         pending, currentThinkRef) IN
     IF pendingThrow \/ r.threw
     THEN /\ fatal' = TRUE
          /\ mounted' = FALSE
          /\ wsState' = "disconnected"
          /\ retryTimers' = 0
          /\ cleanups' = CleanupOrder
          /\ UNCHANGED <<thinkingBlocks, messages, actionLog, connectionState>>
     ELSE /\ thinkingBlocks' = r.blocks
          /\ messages' = r.messages
          /\ actionLog' = r.log
          /\ connectionState' = IF pendingConn = "none" THEN connectionState
                                ELSE pendingConn
          /\ UNCHANGED <<fatal, mounted, wsState, retryTimers, cleanups>>
  /\ pending' = <<>>
  /\ pendingThrow' = FALSE
  /\ pendingConn' = "none"
  /\ last' = Op("render", EmptyStr, 0)
  /\ UNCHANGED <<wsRef, attempts, mounts, failures, subsystems, tasks, stats,
                 currentModel, memoryContext, memoryPreferences, refVars, sent, notified,
                 permission, switchVars,
                 raised, evCount, cmdCount, histVars, batched, handed>>

\* --------------------------------------------------- connection manager

\* OnStateChange that also takes the agent offline when the connection is lost
OnStateChangeResetsAgent(state) ==
  /\ pendingConn' = state
  /\ subsystems' = [subsystems EXCEPT
       !.websocket = IF state = "connected" THEN "connected"
                     ELSE IF state = "reconnecting" THEN "reconnecting"
                     ELSE "disconnected",
       !.mac = IF state = "connected" THEN "reachable" ELSE "unreachable",
       !.agent = IF state = "connected" THEN @ ELSE "offline"]

\* The ws.onStateChange callback registered by the provider.
OnStateChange(state) ==
  /\ pendingConn' = state
  /\ subsystems' = [subsystems EXCEPT
       !.websocket = IF state = "connected" THEN "connected"
                     ELSE IF state = "reconnecting" THEN "reconnecting"
                     ELSE "disconnected",
       !.mac = IF state = "connected" THEN "reachable" ELSE "unreachable"]

\* connect(): no-op when connecting or connected, else the transport is opened.
Connect ==
  IF wsState \in {"connecting", "connected"}
  THEN UNCHANGED <<wsState, pendingConn, subsystems>>
  ELSE wsState' = "connecting" /\ OnStateChange("connecting")

\* disconnect() that leaves the reconnect timer pending
DisconnectLeavesTimer ==
  /\ wsState' = "disconnected"
  /\ retryTimers' = retryTimers
  /\ OnStateChange("disconnected")

\* disconnect(): closes the transport and cancels the pending reconnect timer.
Disconnect ==
  /\ wsState' = "disconnected"
  /\ retryTimers' = 0
  /\ OnStateChange("disconnected")

\* send(frame) that transmits whatever the state
SendAlways(frame) ==
  /\ sent' = Append(sent, frame)
  /\ handed' = Append(handed, [frame |-> frame, state |-> wsState])

\* send(frame): transmitted if and only if the state is connected, else dropped.
Send(frame) ==
  /\ sent' = IF wsState = "connected" THEN Append(sent, frame) ELSE sent
  /\ handed' = Append(handed, [frame |-> frame, state |-> wsState])

\* The "Initialize WebSocket" effect: new WebSocketManager, callbacks, ws.connect()
MountEffect ==
  /\ ~mounted /\ ~fatal
  /\ mounted' = TRUE
  /\ wsRef' = "ws"
  /\ mounts' = mounts + 1
  /\ attempts' = 0
  /\ Connect
  /\ last' = Op("connect", EmptyStr, 0)
  /\ UNCHANGED <<retryTimers, failures, cleanups, connectionState, dataVars, refVars, queueVars,
                 sent, notified, permission, switchVars, raised, evCount, cmdCount,
                 histVars, batched, handed>>

\* The provider unmounts: the cleanups of both effects run.
Teardown ==
  /\ mounted /\ ~fatal
  /\ mounted' = FALSE
  /\ Disconnect
  /\ cleanups' = CleanupOrder
  /\ last' = Op("disconnect", EmptyStr, retryTimers)
  /\ UNCHANGED <<wsRef, attempts, mounts, failures, connectionState, dataVars, refVars,
                 queueVars, sent, notified, permission, switchVars, raised, evCount,
                 cmdCount, histVars, batched,
                 handed>>

\* The transport reports that it is open.
OpenSuccess ==
  /\ wsState = "connecting"
  /\ wsState' = "connected"
  /\ attempts' = 0
  /\ OnStateChange("connected")
  /\ last' = Op("open", EmptyStr, 0)
  /\ UNCHANGED <<mounted, wsRef, retryTimers, mounts, failures, cleanups, connectionState,
                 dataVars, refVars, queueVars, sent, notified, permission, switchVars,
                 raised, evCount, cmdCount,
                 histVars, batched, handed>>

\* The transport closes or errors: reconnecting, and one retry is scheduled.
TransportFailure ==
  /\ wsState \in {"connecting", "connected"}
  /\ wsState' = "reconnecting"
  /\ retryTimers' = retryTimers + 1
  /\ attempts' = attempts + 1
  /\ failures' = failures + 1
  /\ OnStateChange("reconnecting")
  /\ last' = Op("failure", EmptyStr, 0)
  /\ UNCHANGED <<mounted, wsRef, mounts, cleanups, connectionState, dataVars, refVars,
                 queueVars, sent, notified, permission, switchVars, raised, evCount,
                 cmdCount, histVars, batched,
                 handed>>

\* The reconnect timer fires: the next attempt starts.
RetryTimerFires ==
  /\ retryTimers > 0
  /\ retryTimers' = retryTimers - 1
  /\ wsState' = "connecting"
  /\ OnStateChange("connecting")
  /\ last' = Op("retry", EmptyStr, 0)
  /\ UNCHANGED <<mounted, wsRef, attempts, mounts, failures, cleanups, connectionState,
                 dataVars, refVars, queueVars, sent, notified, permission, switchVars,
                 raised, evCount, cmdCount,
                 histVars, batched, handed>>

\* ------------------------------------------------------ command surface

Frame(type, a, b) == [type |-> type, a |-> a, b |-> b]

\* A command can be issued: the provider is alive and wsRef.current is set.
Issuable == ~fatal /\ wsRef = "ws"

Issued(name, text) ==
  /\ cmdCount' = cmdCount + 1
  /\ last' = Op(name, text, IF wsState = "connected" THEN 1 ELSE 0)

\* What a pass-through command leaves alone.
PassThrough ==
  UNCHANGED <<connVars, subsystems, dataVars, refVars, queueVars, notified, permission,
              switchVars, raised,
              evCount, histVars, batched>>

sendTask(task) ==
  /\ Issuable /\ Issued("sendTask", task)
  /\ Send(Frame("send_task", task, EmptyStr))
  /\ PassThrough

\* The body of sendMessage: the frame, then the optimistic ChatMessage
SendAndAppend(msg) ==
  /\ Send(Frame("send_task", msg, EmptyStr))
  /\ msgIdRef' = msgIdRef + 1
  /\ Queue(AppendMessage(msg, "user"))
  /\ UNCHANGED <<connVars, subsystems, dataVars, taskIdRef, actionIdRef, blockIdRef,
                 currentThinkRef, pendingThrow, fatal, notified, permission, switchVars,
                 raised, evCount,
                 histVars, batched>>

sendMessage(msg) == Issuable /\ Issued("sendMessage", msg) /\ SendAndAppend(msg)

\* killAgent that also marks the remote host unreachable
killAgentResetsMac ==
  /\ Issuable /\ Issued("killAgent", EmptyStr)
  /\ Send(Frame("kill", EmptyStr, EmptyStr))
  /\ subsystems' = [subsystems EXCEPT !.agent = "killed", !.mac = "unreachable"]
  /\ UNCHANGED <<connVars, dataVars, refVars, queueVars, notified, permission,
                 switchVars, raised, evCount,
                 histVars, batched>>

\* The body of killAgent: the kill frame and the optimistic agent -> killed.
KillAgentCall ==
  /\ Issuable /\ Issued("killAgent", EmptyStr)
  /\ Send(Frame("kill", EmptyStr, EmptyStr))
  /\ subsystems' = [subsystems EXCEPT !.agent = "killed"]
  /\ UNCHANGED <<connVars, dataVars, refVars, queueVars, notified, permission, raised,
                 evCount, histVars, batched>>

killAgent == KillAgentCall /\ UNCHANGED switchVars

\* ------------------------------------------------------------ KillSwitch

\* KillSwitch.handleClick.  The button is rendered disabled, without the handler,
\* while subsystems.agent is 'killed'.
handleClick ==
  /\ ~fatal /\ subsystems.agent # "killed"
  /\ IF ~armed
     THEN /\ arms < MaxArms
          /\ armed' = TRUE
          /\ arms' = arms + 1
          /\ armedBy' = arms + 1
          /\ disarmTimers' = disarmTimers \cup {arms + 1}   \* setTimeout(..., 5000)
          /\ last' = Op("arm", EmptyStr, arms + 1)
          /\ UNCHANGED <<connVars, subsystems, dataVars, refVars, queueVars, sent,
                         notified, permission, raised, evCount, cmdCount, histVars,
                         batched, handed>>
     ELSE /\ KillAgentCall
          /\ armed' = FALSE
          /\ armedBy' = 0
          /\ UNCHANGED <<disarmTimers, arms>>

\* The timeout callback () => setArmed(false) of arming click g.  The timeouts
\* have the same delay, so they fire in the order they were set; none is cleared.
autoDisarm(g) ==
  /\ ~fatal
  /\ g \in disarmTimers /\ \A h \in disarmTimers : g <= h
  /\ disarmTimers' = disarmTimers \ {g}
  /\ armed' = FALSE
  /\ armedBy' = 0
  /\ last' = Op("timeout", EmptyStr, g)
  /\ UNCHANGED <<connVars, subsystems, dataVars, refVars, queueVars, sent, notified,
                 permission, raised, evCount, cmdCount, histVars, batched, handed, arms>>

updateConfig(key, value) ==
  /\ Issuable /\ Issued("updateConfig", key)
  /\ Send(Frame("update_config", key, value))
  /\ PassThrough

saveMemory(field, content) ==
  /\ Issuable /\ Issued("saveMemory", field)
  /\ Send(Frame("save_memory", field, content))
  /\ PassThrough

requestMemoryFn ==
  /\ Issuable /\ Issued("requestMemory", EmptyStr)
  /\ Send(Frame("get_memory", EmptyStr, EmptyStr))
  /\ PassThrough

requestStatsFn ==
  /\ Issuable /\ Issued("requestStats", EmptyStr)
  /\ Send(Frame("get_stats", EmptyStr, EmptyStr))
  /\ PassThrough

\* HeartbeatTick without the closure's test of connectionState
HeartbeatTickUnguarded ==
  /\ mounted /\ Issuable /\ Issued("heartbeat", EmptyStr)
  /\ Send(Frame("get_stats", EmptyStr, EmptyStr))
  /\ PassThrough

\* The "Periodic stats refresh" interval callback; connectionState is the value the
\* effect's closure captured at the last render.
HeartbeatTick ==
  /\ mounted /\ Issuable /\ Issued("heartbeat", EmptyStr)
  /\ IF connectionState = "connected"
     THEN Send(Frame("get_stats", EmptyStr, EmptyStr))
     ELSE UNCHANGED <<sent, handed>>
  /\ PassThrough

\* input.trim(): leading and trailing blanks (code 32) removed
RECURSIVE TrimLeft(_)
TrimLeft(s) == IF s # <<>> /\ Head(s) = 32 THEN TrimLeft(Tail(s)) ELSE s
RECURSIVE TrimRight(_)
TrimRight(s) ==
  IF s # <<>> /\ s[Len(s)] = 32 THEN TrimRight(SubSeq(s, 1, Len(s) - 1)) ELSE s
Trim(s) == TrimRight(TrimLeft(s))

\* What a rejected handleSend leaves alone: everything.
Rejected ==
  UNCHANGED <<connVars, subsystems, dataVars, refVars, queueVars, sent, notified,
              permission, switchVars,
              raised, evCount, histVars, batched, handed>>

\* handleSend whose guard tests the raw input instead of the trimmed text
handleSendNoTrim(input) ==
  /\ Issuable /\ Issued("handleSend", input)
  /\ IF input = EmptyStr \/ connectionState # "connected"
     THEN Rejected
     ELSE SendAndAppend(Trim(input))

\* MessagePanel.handleSend: the guard, then sendMessage(text)
handleSend(input) ==
  /\ Issuable /\ Issued("handleSend", input)
  /\ LET text == Trim(input) IN
     IF text = EmptyStr \/ connectionState # "connected"
     THEN Rejected
     ELSE SendAndAppend(text)

\* --------------------------------------------------------------- inputs

Ca == <<97>>
Cb == <<98>>
Cm == <<109>>

Absent(fields) == [f \in fields |-> Undef] @@ [present |-> FALSE]
Data(r) == r @@ [present |-> TRUE]

TaskReceivedData ==
  { Data([task |-> Ca, source |-> Undef]), Data([task |-> Undef, source |-> Cb]),
    Absent({"task", "source"}) }
TaskCompletedData ==
  { Data([response |-> Undef]), Data([response |-> Text(ResponseLimit + 1)]),
    Absent({"response"}) }
ThinkingStartData ==
  { Data([model |-> Cm]), Data([model |-> Undef]), Absent({"model"}) }
ThinkingData ==
  { Data([text |-> Ca]), Data([text |-> Cb]), Data([text |-> Undef]), Absent({"text"}) }
ToolCalledData ==
  { Data([tool_name |-> Ca, tool_input |-> Cb]),
    Data([tool_name |-> Undef, tool_input |-> Undef]),
    Absent({"tool_name", "tool_input"}) }
ToolResultData ==
  { Data([tool_name |-> Ca, content |-> Text(3), success |-> 1, duration |-> 7]),
    Data([tool_name |-> Ca, content |-> Text(DetailLimit), success |-> 1,
          duration |-> UndefNum]),
    Data([tool_name |-> Ca, content |-> Text(DetailLimit + 1), success |-> 0,
          duration |-> 7]),
    Data([tool_name |-> Undef, content |-> Undef, success |-> UndefNum,
          duration |-> UndefNum]),
    [tool_name |-> Undef, content |-> Undef, success |-> UndefNum,
     duration |-> UndefNum, present |-> FALSE] }
ImessageData ==
  { Data([message |-> Ca]), Data([message |-> Undef]), Absent({"message"}) }
ApiCallData ==
  { Data([model |-> Cm, tokens_in |-> 10, tokens_out |-> 5]),
    Data([model |-> Undef, tokens_in |-> UndefNum, tokens_out |-> 5]),
    [model |-> Undef, tokens_in |-> UndefNum, tokens_out |-> UndefNum,
     present |-> FALSE] }
StatusChangeData ==
  { [status |-> "idle", present |-> TRUE], [status |-> "undefined", present |-> TRUE],
    [status |-> "paused", present |-> TRUE], [status |-> "undefined", present |-> FALSE] }
ErrorData ==
  { Data([message |-> Ca, error |-> Undef]), Data([message |-> Undef, error |-> Cb]),
    Data([message |-> Undef, error |-> Undef]), Absent({"message", "error"}) }
StatsData ==
  { [defaultStats EXCEPT !.total_events = 9, !.total_tokens_in = 100,
                         !.total_tokens_out = 50, !.uptime_seconds = 3],
    [undefinedStats EXCEPT !.defined = TRUE, !.total_events = 9],
    undefinedStats }
MemoryDataData ==
  { Data([context |-> Ca, preferences |-> Undef]), Absent({"context", "preferences"}) }

CommandTexts == { EmptyStr, Ca }
Inputs == { EmptyStr, <<32>>, <<32, 97, 32>> }

\* ------------------------------------------------------- specification

HandleEvent ==
  \/ \E d \in TaskReceivedData : HandleTaskReceived(d)
  \/ \E d \in TaskCompletedData : HandleTaskCompleted(d)
  \/ \E d \in ThinkingStartData : HandleThinkingStart(d)
  \/ \E d \in ThinkingData : HandleThinking(d)
  \/ \E d \in ToolCalledData : HandleToolCalled(d)
  \/ \E d \in ToolResultData : HandleToolResult(d)
  \/ \E d \in ImessageData : HandleImessageSent(d)
  \/ \E d \in ImessageData : HandleImessageReceived(d)
  \/ \E d \in ApiCallData : HandleApiCall(d)
  \/ \E d \in StatusChangeData : HandleStatusChange(d)
  \/ \E d \in ErrorData : HandleError(d)
  \/ \E d \in StatsData : HandleStats(d)
  \/ \E d \in MemoryDataData : HandleMemoryData(d)
  \/ HandleKillSwitch
  \/ HandleUnrecognized

Command ==
  \/ sendTask(Ca)
  \/ \E t \in CommandTexts : sendMessage(t)
  \/ killAgent
  \/ updateConfig(Ca, Cb)
  \/ saveMemory(Ca, Cb)
  \/ requestMemoryFn
  \/ requestStatsFn
  \/ HeartbeatTick
  \/ \E i \in Inputs : handleSend(i)

Connection ==
  \/ mounts < MaxMounts /\ MountEffect
  \/ Teardown
  \/ OpenSuccess
  \/ failures < MaxFailures /\ TransportFailure
  \/ RetryTimerFires

\* The provider mounts once and the transport opens.
Setup ==
  \/ mounts = 0 /\ MountEffect
  \/ OpenSuccess

\* Everything: events, commands, the connection's life and renders.
Next ==
  \/ evCount < MaxEvents /\ HandleEvent
  \/ cmdCount < MaxCmds /\ Command
  \/ Connection
  \/ Render

Spec == Init /\ [][Next]_vars

\* Every event type, and sendMessage, over one open connection.
NextEvents ==
  \/ Setup
  \/ evCount < MaxRouted /\ HandleEvent
  \/ cmdCount < MaxSends /\ \E t \in CommandTexts : sendMessage(t)
  \/ Render

SpecEvents == Init /\ [][NextEvents]_vars

\* The task events over one open connection.
NextTasks ==
  \/ Setup
  \/ evCount < MaxTaskEvents /\ \E d \in TaskReceivedData : HandleTaskReceived(d)
  \/ evCount < MaxTaskEvents /\ \E d \in TaskCompletedData : HandleTaskCompleted(d)
  \/ Render

SpecTasks == Init /\ [][NextTasks]_vars

\* The events that write thinkingBlocks, over one open connection.
TraceStartData == { Data([model |-> Cm]), Absent({"model"}) }
TraceToolData ==
  { Data([tool_name |-> Ca, tool_input |-> Cb]), Absent({"tool_name", "tool_input"}) }
TraceResultData ==
  { Data([tool_name |-> Ca, content |-> Text(3), success |-> 1, duration |-> 7]) }
TraceErrorData == { Data([message |-> Ca, error |-> Undef]) }

NextThinking ==
  \/ Setup
  \/ evCount < MaxTraceEvents /\ \E d \in TraceStartData : HandleThinkingStart(d)
  \/ evCount < MaxTraceEvents /\ \E d \in ThinkingData : HandleThinking(d)
  \/ evCount < MaxTraceEvents /\ \E d \in TraceToolData : HandleToolCalled(d)
  \/ evCount < MaxTraceEvents /\ \E d \in TraceResultData : HandleToolResult(d)
  \/ evCount < MaxTraceEvents /\ \E d \in TraceErrorData : HandleError(d)
  \/ Render

SpecThinking == Init /\ [][NextThinking]_vars

\* The tool events over one open connection.
NextTools ==
  \/ Setup
  \/ evCount < MaxToolEvents /\ \E d \in ToolCalledData : HandleToolCalled(d)
  \/ evCount < MaxToolEvents /\ \E d \in ToolResultData : HandleToolResult(d)
  \/ Render

SpecTools == Init /\ [][NextTools]_vars

\* One well-formed event of each kind of effect.
SampleEvent ==
  \/ HandleTaskReceived(Data([task |-> Ca, source |-> Undef]))
  \/ HandleTaskCompleted(Data([response |-> Undef]))
  \/ HandleThinkingStart(Data([model |-> Cm]))
  \/ HandleThinking(Data([text |-> Ca]))
  \/ HandleToolResult(Data([tool_name |-> Ca, content |-> Text(3), success |-> 1,
                            duration |-> 7]))
  \/ HandleImessageSent(Data([message |-> Ca]))
  \/ HandleImessageReceived(Data([message |-> Ca]))
  \/ HandleApiCall(Data([model |-> Cm, tokens_in |-> 10, tokens_out |-> 5]))
  \/ HandleMemoryData(Data([context |-> Ca, preferences |-> Undef]))
  \/ HandleUnrecognized

\* Events over a connection that fails and reconnects.
NextSession ==
  \/ Setup
  \/ failures < MaxDrops /\ TransportFailure
  \/ RetryTimerFires
  \/ evCount < MaxSession /\ SampleEvent
  \/ Render

\* The trace events, each with one well-formed datum.
PointerEvent ==
  \/ HandleThinkingStart(Data([model |-> Cm]))
  \/ HandleThinking(Data([text |-> Ca]))
  \/ HandleToolCalled(Data([tool_name |-> Ca, tool_input |-> Cb]))
  \/ HandleToolResult(Data([tool_name |-> Ca, content |-> Text(3), success |-> 1,
                            duration |-> 7]))
  \/ HandleError(Data([message |-> Ca, error |-> Undef]))

\* Every other event type, each with one well-formed datum.
AsideEvent ==
  \/ HandleTaskReceived(Data([task |-> Ca, source |-> Undef]))
  \/ HandleTaskCompleted(Data([response |-> Undef]))
  \/ HandleImessageSent(Data([message |-> Ca]))
  \/ HandleImessageReceived(Data([message |-> Ca]))
  \/ HandleApiCall(Data([model |-> Cm, tokens_in |-> 10, tokens_out |-> 5]))
  \/ HandleMemoryData(Data([context |-> Ca, preferences |-> Undef]))
  \/ HandleStatusChange([status |-> "idle", present |-> TRUE])
  \/ HandleStats([defaultStats EXCEPT !.total_events = 9])
  \/ HandleKillSwitch
  \/ HandleUnrecognized

\* A thinking block is current and every queued update has been applied.
PointerSet == currentThinkRef # NullId /\ pending = <<>>

\* The trace events at any time; the other events, the commands and the transport
\* failures while a thinking block is current.  MaxPointer bounds the events
\* handled and the commands issued together.
NextPointer ==
  \/ Setup
  \/ (failures < MaxDrops /\ PointerSet) /\ TransportFailure
  \/ RetryTimerFires
  \/ evCount + cmdCount < MaxPointer /\ PointerEvent
  \/ (evCount + cmdCount < MaxPointer /\ PointerSet) /\ AsideEvent
  \/ (evCount + cmdCount < MaxPointer /\ PointerSet) /\ Command
  \/ Render

SpecPointer == Init /\ [][NextPointer]_vars

\* The events that write subsystems.agent.
AgentEvent ==
  \/ HandleTaskReceived(Data([task |-> Ca, source |-> Undef]))
  \/ HandleTaskCompleted(Data([response |-> Undef]))
  \/ HandleStatusChange([status |-> "idle", present |-> TRUE])
  \/ HandleKillSwitch

NextKillSwitch ==
  \/ Setup
  \/ handleClick
  \/ \E g \in 1..MaxArms : autoDisarm(g)
  \/ evCount < MaxAgentEvents /\ AgentEvent
  \/ Render

SpecKillSwitch == Init /\ [][NextKillSwitch]_vars

\* The operator grants or withdraws the notification permission in the browser.
SetPermission(p) ==
  /\ permission # p
  /\ permission' = p
  /\ last' = Op("permission", EmptyStr, 0)
  /\ UNCHANGED <<connVars, subsystems, dataVars, refVars, queueVars, sent, notified,
                 switchVars, raised, evCount, cmdCount, histVars, batched, handed>>

\* The events that notify, and one that does not.
NotifyingEvent ==
  \/ HandleTaskReceived(Data([task |-> Ca, source |-> Undef]))
  \/ HandleTaskCompleted(Data([response |-> Ca]))
  \/ HandleImessageReceived(Data([message |-> Ca]))
  \/ HandleKillSwitch
  \/ HandleImessageSent(Data([message |-> Cb]))

NextNotify ==
  \/ Setup
  \/ \E p \in Permissions : SetPermission(p)
  \/ evCount < MaxNotified /\ NotifyingEvent
  \/ Render

SpecNotify == Init /\ [][NextNotify]_vars

\* The chat: the operator's messages and the server's imessage events.
ChatTexts == { Ca, Cb }

ChatEvent ==
  \/ \E t \in ChatTexts : HandleImessageSent(Data([message |-> t]))
  \/ \E t \in ChatTexts : HandleImessageReceived(Data([message |-> t]))

ChatCommand ==
  \/ \E t \in CommandTexts : sendMessage(t)
  \/ \E i \in Inputs : handleSend(i)

NextChat ==
  \/ Setup
  \/ evCount < MaxChat /\ ChatEvent
  \/ cmdCount < MaxIssued /\ ChatCommand
  \/ Render

SpecChat == Init /\ [][NextChat]_vars

SpecSession == Init /\ [][NextSession]_vars

\* The connection's life, with the heartbeat ticking over it.
NextConn ==
  \/ Connection
  \/ cmdCount < MaxTicks /\ HeartbeatTick
  \/ Render

SpecConn == Init /\ [][NextConn]_vars

\* The commands, over a connection that fails and reconnects.
NextCommands ==
  \/ Setup
  \/ failures < MaxFailures /\ TransportFailure
  \/ RetryTimerFires
  \/ cmdCount < MaxIssued /\ Command
  \/ Render

SpecCommands == Init /\ [][NextCommands]_vars

\* ================================================================ claims

ActiveTasks == {i \in 1..Len(tasks) : tasks[i].status = "active"}

\* C1: after any sequence of task_received and task_completed events at most one
\* TaskItem is active; an active task is the head of the list, carries the highest
\* id, and no task_completed was handled since it was received; and the task
\* received last is active until a task_completed is handled.
C1_SingleActiveTask ==
  /\ Cardinality(ActiveTasks) <= 1
  /\ ActiveTasks \subseteq {1}
  /\ ActiveTasks # {} =>
       /\ lastTaskEv = "received"
       /\ \A j \in 2..Len(tasks) : tasks[j].id < tasks[1].id
  /\ lastTaskEv = "received" => ActiveTasks = {1}

\* Three tasks were received in a row: the newest is active, the older two completed.
C1_Witness ==
  /\ Len(tasks) = 3
  /\ tasks[1].status = "active"
  /\ tasks[2].status = "completed" /\ tasks[3].status = "completed"
  /\ last.op = "task_received"

ThinkingBlocksOf(blocks) == {i \in 1..Len(blocks) : blocks[i].type = "thinking"}

\* C2: when every event is applied before the next one is handled, the text of each
\* thinking block is the concatenation, in arrival order, of the data.text of the
\* thinking events handled between its thinking_start and the next tool_called or
\* thinking_start; a thinking event handled after tool_called changes no block and
\* creates none (the blocks are exactly those created by the other events).
C2_ThinkingAccumulation ==
  (~batched /\ pending = <<>>) =>
    /\ \A i \in ThinkingBlocksOf(thinkingBlocks) :
         thinkingBlocks[i].id.n \notin textless =>
           thinkingBlocks[i].text = want[thinkingBlocks[i].id.n]
    /\ Len(thinkingBlocks) = created

\* thinking_start, thinking a, thinking b, tool_called, and a further thinking delta,
\* each applied before the next: the block reads "ab" and the last delta is dropped.
C2_Witness ==
  /\ ~batched /\ pending = <<>> /\ ~raised /\ ~fatal
  /\ evCount = 5 /\ blockIdRef = 2 /\ open = 0
  /\ last.op = "render"
  /\ Len(thinkingBlocks) = 2
  /\ thinkingBlocks[1].type = "thinking" /\ thinkingBlocks[1].text = Ca \o Cb
  /\ thinkingBlocks[2].type = "tool_call"

\* C3: connect() moves disconnected to connecting; open success moves to connected;
\* a close or error while connected moves to reconnecting with exactly one retry
\* pending; disconnect() forces disconnected from any state and cancels the retry;
\* and from disconnected nothing but connect() starts a connection attempt.
C3_ConnectionLifecycle ==
  [][ /\ last'.op = "connect" =>
           wsState = "disconnected" /\ wsState' = "connecting"
      /\ last'.op = "open" =>
           wsState = "connecting" /\ wsState' = "connected"
      /\ (last'.op = "failure" /\ wsState = "connected") =>
           wsState' = "reconnecting" /\ retryTimers' = 1
      /\ last'.op = "disconnect" =>
           wsState' = "disconnected" /\ retryTimers' = 0
      /\ (wsState = "disconnected" /\ last'.op # "connect") =>
           wsState' = "disconnected" /\ retryTimers' = 0
    ]_vars

\* A disconnect() that cancelled the retry left pending by a transport failure.
C3_Witness ==
  /\ last.op = "disconnect" /\ last.num = 1
  /\ failures >= 1
  /\ wsState = "disconnected" /\ retryTimers = 0

ConnectedHandovers == SelectSeq(handed, LAMBDA h : h.state = "connected")

\* C4: the frames transmitted are exactly the frames handed to send while the state
\* was connected, in that order: a frame handed over in another state is dropped
\* and is not transmitted later either.
C4_SendIffConnected ==
  sent = [i \in 1..Len(ConnectedHandovers) |-> ConnectedHandovers[i].frame]

\* A frame dropped while reconnecting; after the reconnect a second frame is sent,
\* and the dropped one is not.
C4_Witness ==
  /\ Len(handed) = 2
  /\ handed[1].state = "reconnecting" /\ handed[2].state = "connected"
  /\ sent = <<handed[2].frame>>

\* C8 as claimed: sendMessage with empty text, or while the state is not connected,
\* sends no frame and appends no ChatMessage.
C8_SendMessageRejects ==
  [][ (last'.op = "sendMessage" /\ (last'.text = EmptyStr \/ wsState # "connected")) =>
        (sent' = sent /\ pending' = pending /\ messages' = messages) ]_vars

\* C8 amended: handleSend with an input that is empty after trimming, or with the
\* rendered connectionState not connected, does not call sendMessage: no frame is
\* handed to send and no ChatMessage is appended.
C8_HandleSendRejects ==
  [][ (last'.op = "handleSend"
       /\ (Trim(last'.text) = EmptyStr \/ connectionState # "connected")) =>
        (sent' = sent /\ handed' = handed /\ pending' = pending
         /\ messages' = messages /\ msgIdRef' = msgIdRef) ]_vars

\* handleSend rejected a blank input while connected.
C8_Witness ==
  /\ last.op = "handleSend" /\ last.text = <<32>>
  /\ connectionState = "connected" /\ wsState = "connected"
  /\ messages = <<>> /\ pending = <<>> /\ handed = <<>>

Increasing(ids) == \A i, j \in 1..Len(ids) : i < j => ids[i] < ids[j]
Decreasing(ids) == \A i, j \in 1..Len(ids) : i < j => ids[i] > ids[j]

\* C5 as claimed: under every interleaving of events, sendMessage calls and renders
\* the ids of each series are strictly increasing in creation order (tasks are
\* prepended, so their list runs from the newest to the oldest); no two entities of
\* a series share an id.
C5_IdsStrictlyIncrease ==
  /\ Decreasing([i \in 1..Len(tasks) |-> tasks[i].id])
  /\ Increasing([i \in 1..Len(messages) |-> messages[i].id])
  /\ Increasing([i \in 1..Len(actionLog) |-> actionLog[i].id])
  /\ Increasing([i \in 1..Len(thinkingBlocks) |-> thinkingBlocks[i].id.n])

Given(x) == IF x = UndefNum THEN 0 ELSE x

\* C6 as claimed: api_call adds exactly data.tokens_in and data.tokens_out (0 when
\* missing) to the running totals of the snapshot and changes no other stats field;
\* stats replaces the snapshot with its payload.
C6_StatsAccumulateAndReplace ==
  [][ /\ \A d \in ApiCallData : (d.present /\ stats.defined /\ HandleApiCall(d)) =>
           /\ stats'.total_tokens_in >= 0
           /\ stats'.total_tokens_out >= 0
           /\ stats' = [stats EXCEPT
                          !.total_tokens_in = @ + Given(d.tokens_in),
                          !.total_tokens_out = @ + Given(d.tokens_out)]
      /\ \A d \in StatsData : (d.defined /\ HandleStats(d)) => stats' = d
    ]_vars

QueuedEntries(q) == SelectSeq(q, LAMBDA u : u.kind = "entry")

\* C7: a tool_result event (with data) queues exactly one ActionLogEntry, whose detail
\* is the prefix of data.content of length min(200, length of content), empty when
\* content is absent; the render that applies the queue appends the queued entries,
\* in order and with these details, and nothing else changes the action log.
C7_DetailTruncated ==
  [][ /\ \A d \in ToolResultData : (d.present /\ HandleToolResult(d)) =>
           /\ Len(QueuedEntries(pending')) = Len(QueuedEntries(pending)) + 1
           /\ LET c == IF d.content = Undef THEN EmptyStr ELSE d.content
                  n == IF Len(c) > DetailLimit THEN DetailLimit ELSE Len(c)
                  e == pending'[Len(pending')].entry
              IN /\ Len(e.detail) = n
                 /\ \A i \in 1..n : e.detail[i] = c[i]
      /\ (last'.op = "render" /\ ~fatal') =>
           /\ Len(actionLog') = Len(actionLog) + Len(QueuedEntries(pending))
           /\ SubSeq(actionLog', 1, Len(actionLog)) = actionLog
           /\ \A i \in 1..Len(QueuedEntries(pending)) :
                actionLog'[Len(actionLog) + i].detail =
                  QueuedEntries(pending)[i].entry.detail
      /\ (last'.op # "render" \/ fatal') => actionLog' = actionLog
    ]_vars

\* A tool_result whose content has 201 characters was rendered: the result block
\* holds the whole content, the ActionLogEntry its first 200 characters.
C7_Witness ==
  /\ last.op = "render" /\ ~fatal
  /\ Len(actionLog) = 1 /\ Len(thinkingBlocks) = 1
  /\ Len(thinkingBlocks[1].content) = DetailLimit + 1
  /\ actionLog[1].detail = SubSeq(thinkingBlocks[1].content, 1, DetailLimit)

\* C9 as claimed: handleEvent never throws, and no event makes the engine stop
\* processing the events after it.
C9_NeverRaises == ~raised /\ ~fatal

DefinedStr(x) == x # Undef
DefinedNum(x) == x >= 0

\* C10 as claimed: no stored TaskItem text, ChatMessage text, ThinkingBlock field
\* or stats counter holds an absent value.
C10_NoAbsentStored ==
  /\ \A i \in 1..Len(tasks) : DefinedStr(tasks[i].text) /\ DefinedStr(tasks[i].source)
  /\ \A i \in 1..Len(messages) : DefinedStr(messages[i].text)
  /\ \A i \in 1..Len(thinkingBlocks) :
       LET b == thinkingBlocks[i] IN
       CASE b.type = "thinking" -> DefinedStr(b.model) /\ DefinedStr(b.text)
         [] b.type = "tool_call" -> DefinedStr(b.toolName) /\ DefinedStr(b.toolInput)
         [] b.type = "tool_result" ->
              /\ DefinedStr(b.toolName) /\ DefinedStr(b.content)
              /\ DefinedNum(b.success) /\ DefinedNum(b.duration)
         [] OTHER -> DefinedStr(b.text)
  /\ stats.defined
  /\ \A f \in DOMAIN stats \ {"defined"} : DefinedNum(stats[f])

\* ------------------------------------------------------------------ C11

\* The connection's life and the heartbeat; React eventually renders what is queued
\* and the interval eventually fires.
SpecConnLive ==
  /\ Init /\ [][NextConn]_vars
  /\ WF_vars(Render)
  /\ WF_vars(cmdCount < MaxTicks /\ HeartbeatTick)

GetStats == Frame("get_stats", EmptyStr, EmptyStr)

Pos(r, log) == CHOOSE i \in 1..Len(log) : r \in log[i].releases

\* Once the provider is unmounted, only a new mount (or a render of what was already
\* queued) follows: no retry, no open, no failure, no heartbeat tick, no second
\* teardown.
QuietAfterTeardown ==
  ~mounted => last'.op \in {"connect", "render"}

\* C12 as claimed: teardown cancels the reconnect timer, then the heartbeat
\* interval, then closes the transport; afterwards no reconnect attempt and no
\* heartbeat tick fires, and a second teardown changes nothing.
C12_TeardownOrder ==
  [][ /\ last'.op = "disconnect" =>
           /\ Pos("timer", cleanups') < Pos("interval", cleanups')
           /\ Pos("interval", cleanups') < Pos("transport", cleanups')
      /\ QuietAfterTeardown
    ]_vars

\* C12 amended: teardown runs ws.disconnect(), which closes the transport and cancels
\* the reconnect timer, and then clears the heartbeat interval; it leaves the manager
\* disconnected with no retry pending; afterwards no reconnect attempt and no
\* heartbeat tick fires, and the cleanups do not run again before a new mount.
C12_TeardownCleanups ==
  [][ /\ last'.op = "disconnect" =>
           /\ Len(cleanups') = 2
           /\ Pos("transport", cleanups') = 1 /\ Pos("timer", cleanups') = 1
           /\ Pos("interval", cleanups') = 2
           /\ ~mounted' /\ wsState' = "disconnected" /\ retryTimers' = 0
      /\ QuietAfterTeardown
    ]_vars

\* A teardown while a retry was pending and after the heartbeat had ticked.
C12_Witness ==
  /\ last.op = "disconnect" /\ last.num = 1 /\ cmdCount >= 1
  /\ ~mounted /\ cleanups = CleanupOrder /\ retryTimers = 0

\* ------------------------------------------------------------------ C13

\* The documented frame type of each pass-through command.
FrameTypeOf ==
  [sendTask |-> "send_task", updateConfig |-> "update_config",
   saveMemory |-> "save_memory", requestMemory |-> "get_memory",
   requestStats |-> "get_stats"]

\* Exactly one frame, of type t, was handed to send by this step.
HandsOne(t) ==
  /\ Len(handed') = Len(handed) + 1
  /\ SubSeq(handed', 1, Len(handed)) = handed
  /\ handed'[Len(handed')].frame.type = t

\* C13: sendTask, updateConfig, saveMemory, requestMemory and requestStats each hand
\* exactly one frame of their documented type to send and change no state slice, ref
\* or queued update; killAgent hands one kill frame to send and sets agent to killed,
\* leaving every other slice and the other three subsystem fields unchanged.
C13_CommandsPassThrough ==
  [][ /\ last'.op \in DOMAIN FrameTypeOf =>
           /\ HandsOne(FrameTypeOf[last'.op])
           /\ UNCHANGED <<connectionState, pendingConn, subsystems, dataVars, refVars,
                          queueVars>>
      /\ last'.op = "sendTask" => handed'[Len(handed')].frame.a = last'.text
      /\ last'.op = "killAgent" =>
           /\ HandsOne("kill")
           /\ subsystems' = [subsystems EXCEPT !.agent = "killed"]
           /\ UNCHANGED <<connectionState, pendingConn, dataVars, refVars, queueVars>>
    ]_vars

\* updateConfig and then killAgent over an open connection: two frames handed over,
\* agent killed, the websocket and mac fields untouched.
C13_Witness ==
  /\ last.op = "killAgent" /\ Len(handed) = 2
  /\ handed[1].frame.type = "update_config" /\ handed[2].frame.type = "kill"
  /\ subsystems.agent = "killed" /\ subsystems.websocket = "connected"
  /\ subsystems.mac = "reachable"

\* ------------------------------------------------------------------ C14

\* The subsystem fields a step changes.
ChangedFields == {f \in DOMAIN subsystems : subsystems'[f] # subsystems[f]}

\* C14 as claimed: the four subsystem fields are independent: each has its own
\* triggering events, so no step changes two of them together, and mac in particular
\* does not follow the socket: it is not changed by a connection-state change.
C14_FieldsIndependent ==
  [][ /\ Cardinality(ChangedFields) <= 1
      /\ "mac" \in ChangedFields =>
           last'.op \notin {"connect", "open", "failure", "retry", "disconnect"}
    ]_vars

\* ------------------------------------------------------------------ C15

\* SubsystemStatus.agent as typed
AgentStatuses == {"online", "working", "idle", "killed", "offline"}

\* C15 as claimed: agent is always one of online, working, idle, killed, offline; a
\* status_change event sets agent to data.status, or to online when data.status is
\* absent.
C15_AgentStatus ==
  [][ /\ subsystems'.agent \in AgentStatuses
      /\ \A d \in StatusChangeData : (d.present /\ HandleStatusChange(d)) =>
           subsystems'.agent = IF d.status = "undefined" THEN "online" ELSE d.status
    ]_vars

\* ------------------------------------------------------------------ C16

\* C16: an event of a type that has no case changes no slice, no subsystem field, no
\* id counter, not the current-thinking pointer and no queued update; it sends no
\* notification and raises nothing.
C16_UnrecognizedIgnored ==
  [][ last'.op = "unrecognized" =>
        UNCHANGED <<dataVars, subsystems, connectionState, pendingConn, refVars,
                    queueVars, notified, permission, switchVars, raised, sent>>
    ]_vars

\* An unrecognized event handled while a task is active and its agent working.
C16_Witness ==
  /\ last.op = "unrecognized" /\ evCount = 2
  /\ Len(tasks) = 1 /\ tasks[1].status = "active" /\ taskIdRef = 1
  /\ subsystems.agent = "working" /\ Len(notified) = 1 /\ ~raised

\* ------------------------------------------------------------------ C17

ConnectionSteps == {"connect", "open", "failure", "retry", "disconnect"}

\* C17: a connection-state change (the open, a transport failure, the retry, and the
\* render that commits the new connectionState) leaves tasks, thinkingBlocks,
\* messages, actionLog, stats, currentModel, the memory strings, the agent and claude
\* fields, the id counters, the pointer and the queued updates unchanged; only
\* connectionState (through its queued value) and websocket and mac change.
C17_ReconnectKeepsState ==
  [][ /\ last'.op \in ConnectionSteps =>
           /\ UNCHANGED <<dataVars, refVars, queueVars, connectionState>>
           /\ subsystems'.agent = subsystems.agent
           /\ subsystems'.claude = subsystems.claude
      /\ (last'.op = "render" /\ pending = <<>> /\ ~pendingThrow) =>
           UNCHANGED <<dataVars, refVars, subsystems>>
    ]_vars

\* The connection failed and came back after a task, an api_call and a thinking
\* block: all of them are still there.
C17_Witness ==
  /\ last.op = "open" /\ failures = 1 /\ wsState = "connected"
  /\ Len(tasks) = 1 /\ stats.total_tokens_in = 10 /\ Len(thinkingBlocks) = 1
  /\ subsystems.agent = "working" /\ subsystems.claude = "active"

\* ------------------------------------------------------------------ C18

\* The text an accepted call passes on: sendMessage its argument, handleSend the
\* trimmed input.
AcceptedText(op) == IF op.op = "handleSend" THEN Trim(op.text) ELSE op.text

\* C18: a sendMessage call that was accepted hands {type: send_task, task: text} to
\* send and queues, in the same call, exactly one ChatMessage with sender user; the
\* render appends everything queued; no entry is dropped as a duplicate, so the
\* messages appended or queued always number the accepted sendMessage calls plus the
\* imessage_sent and imessage_received events handled.
C18_OptimisticAppend ==
  /\ [](~fatal => Len(messages) + Len(pending) = Len(handed) + evCount)
  /\ [][ /\ (last'.op \in {"sendMessage", "handleSend"} /\ handed' # handed) =>
             /\ handed' = Append(handed,
                   [frame |-> Frame("send_task", AcceptedText(last'), EmptyStr),
                    state |-> wsState])
             /\ pending' = Append(pending, AppendMessage(AcceptedText(last'), "user"))
             /\ messages' = messages
         /\ (last'.op = "handleSend" /\ Trim(last'.text) # EmptyStr
               /\ connectionState = "connected") => handed' # handed
         /\ last'.op = "sendMessage" => handed' # handed
         /\ (last'.op = "render" /\ ~fatal') =>
             /\ Len(messages') = Len(messages) + Len(pending)
             /\ SubSeq(messages', 1, Len(messages)) = messages
             /\ \A i \in DOMAIN pending :
                  /\ messages'[Len(messages) + i].text = pending[i].text
                  /\ messages'[Len(messages) + i].sender = pending[i].sender
     ]_vars

\* The operator's message, the server's echo of it and an incoming message with the
\* same text are three entries.
C18_Witness ==
  /\ last.op = "render" /\ pending = <<>> /\ Len(messages) = 3
  /\ Len(handed) = 1 /\ evCount = 2
  /\ \A i \in 1..3 : messages[i].text = Ca
  /\ messages[1].sender = "user" /\ messages[2].sender = "tars"
  /\ messages[3].sender = "user"

\* ------------------------------------------------------------------ C19

NotifyingEvents == {"task_received", "task_completed", "imessage_received", "kill_switch"}

\* The state effect of a notifying event that carries data.
EffectApplied(op) ==
  CASE op.op = "task_received" ->
         /\ Len(tasks') = Len(tasks) + 1
         /\ tasks'[1].status = "active" /\ tasks'[1].text = op.text
         /\ {i \in 1..Len(tasks') : tasks'[i].status = "active"} = {1}
         /\ subsystems'.agent = "working"
    [] op.op = "task_completed" ->
         /\ tasks' = CompleteActive(tasks, Now)
         /\ subsystems'.agent = "online"
    [] op.op = "imessage_received" ->
         pending' = Append(pending, AppendMessage(op.text, "user"))
    [] op.op = "kill_switch" -> subsystems'.agent = "killed"

\* C19: when the notification of task_received, task_completed, imessage_received or
\* kill_switch cannot be shown, nothing is raised out of handleEvent, the event's
\* state effect is applied in full, and the provider stays mounted and connected, so
\* the events that follow are handled.
C19_NotifyFailureContained ==
  /\ [](~raised /\ ~fatal)
  /\ [][ (last'.op \in NotifyingEvents /\ permission = "denied") =>
            /\ Len(notified') = Len(notified) + 1
            /\ notified'[Len(notified')].outcome = "dropped"
            /\ raised' = raised
            /\ EffectApplied(last')
            /\ mounted' /\ ~fatal' /\ wsState' = "connected"
     ]_vars

\* A task arrived while notifications were denied; its notification was dropped, the
\* task is there, and the task_completed that followed completed it.
C19_Witness ==
  /\ Len(notified) = 2 /\ notified[1].outcome = "dropped"
  /\ notified[1].title = "TARS // New Task"
  /\ last.op = "task_completed" /\ evCount = 2
  /\ Len(tasks) = 1 /\ tasks[1].status = "completed"
  /\ subsystems.agent = "online" /\ ~raised
\* ------------------------------------------------------------------ C20

\* C20: whatever the interleaving of event handling with the renders that apply the
\* queued updates, once the queue is applied each thinking block holds exactly the
\* deltas that were handled while it was the current block: none is appended to a
\* block created by a later thinking_start, none is dropped because of a later
\* tool_called.
C20_RaceFree ==
  (pending = <<>> /\ ~fatal /\ ~raised /\ textless = {}) =>
    \A i \in ThinkingBlocksOf(thinkingBlocks) :
      thinkingBlocks[i].text = want[thinkingBlocks[i].id.n]

\* ------------------------------------------------------------------ C21

IsPrefix(a, b) == Len(a) <= Len(b) /\ SubSeq(b, 1, Len(a)) = a

\* C21: thinkingBlocks is append-only.  No step removes, reorders or replaces a
\* block; an existing block changes only when it is the thinking block the pointer
\* names, only in its text, and its old text is a prefix of the new one; tool_call,
\* tool_result and error blocks never change; only a render changes the sequence.
C21_AppendOnly ==
  [][ /\ Len(thinkingBlocks') >= Len(thinkingBlocks)
      /\ \A i \in DOMAIN thinkingBlocks :
           \/ thinkingBlocks'[i] = thinkingBlocks[i]
           \/ /\ thinkingBlocks[i].type = "thinking"
              /\ thinkingBlocks[i].id = currentThinkRef
              /\ thinkingBlocks'[i] =
                   [thinkingBlocks[i] EXCEPT !.text = thinkingBlocks'[i].text]
              /\ IsPrefix(thinkingBlocks[i].text, thinkingBlocks'[i].text)
      /\ last'.op # "render" => thinkingBlocks' = thinkingBlocks
    ]_vars

\* Every event was rendered before the next one was handled: the thinking block was
\* rendered empty, grew to 'a' and then to 'ab'; the error block is as it was created.
C21_Witness ==
  /\ last.op = "render" /\ ~fatal /\ Len(thinkingBlocks) = 2
  /\ thinkingBlocks[1].type = "thinking" /\ thinkingBlocks[1].text = Ca \o Cb
  /\ thinkingBlocks[2].type = "error" /\ thinkingBlocks[2].text = Ca
  /\ evCount = 4 /\ ~batched

\* ------------------------------------------------------------------ C22

\* C22: currentThinkRef.current is written only by thinking_start (the new block's
\* id) and by tool_called (null); every other event, every command, every
\* connection-state change and every render leaves it as it is.  So a delta applied
\* while the pointer names a rendered thinking block is appended to that block,
\* wherever the block stands in the sequence.
C22_PointerFrame ==
  [][ /\ last'.op = "thinking_start" =>
           currentThinkRef' = BlockId("think", blockIdRef') /\ blockIdRef' = blockIdRef + 1
      /\ last'.op = "tool_called" => currentThinkRef' = NullId
      /\ last'.op \notin {"thinking_start", "tool_called"} =>
           currentThinkRef' = currentThinkRef
      /\ (last'.op = "render" /\ ~fatal' /\ Len(pending) = 1 /\ pending[1].kind = "delta"
            /\ FindIndex(thinkingBlocks, currentThinkRef) # 0) =>
           LET idx == FindIndex(thinkingBlocks, currentThinkRef) IN
           /\ thinkingBlocks[idx].type = "thinking"
           /\ thinkingBlocks'[idx].text =
                Concat(thinkingBlocks[idx].text, pending[1].text)
           /\ Len(thinkingBlocks') = Len(thinkingBlocks)
    ]_vars

\* thinking_start and tool_result were rendered, the connection failed and came
\* back (the rendered connectionState is still reconnecting), and the delta handled
\* since is queued against a pointer that still names think-1, which is no longer
\* the last block.
C22_Witness ==
  /\ last.op = "thinking" /\ pending = <<Delta(Ca)>>
  /\ failures = 1 /\ wsState = "connected" /\ connectionState = "reconnecting"
  /\ currentThinkRef = BlockId("think", 1)
  /\ Len(thinkingBlocks) = 2
  /\ thinkingBlocks[1].id = BlockId("think", 1) /\ thinkingBlocks[1].text = EmptyStr
  /\ thinkingBlocks[2].type = "tool_result"

\* ------------------------------------------------------------------ C23

\* What one step may do to a TaskItem: nothing, or complete it when it is active.
Evolves(a, b) ==
  \/ b = a
  \/ /\ a.status = "active" /\ a.completedAt = UndefNum
     /\ b = [a EXCEPT !.status = "completed", !.completedAt = Now]

\* C23: task status is monotone.  A task is created active and without completedAt;
\* its only change is active to completed, with completedAt set at that change; a
\* completed task is never changed again by a later task_received or
\* task_completed; no status other than active and completed is produced; a
\* task_completed with no active task leaves the list as it is and sets agent to
\* online.
C23_StatusMonotone ==
  /\ [](\A i \in DOMAIN tasks :
          /\ tasks[i].status \in {"active", "completed"}
          /\ tasks[i].status = "completed" <=> tasks[i].completedAt # UndefNum)
  /\ [][ /\ IF last'.op = "task_received" /\ tasks' # tasks
            THEN /\ Len(tasks') = Len(tasks) + 1
                 /\ tasks'[1].status = "active" /\ tasks'[1].completedAt = UndefNum
                 /\ \A i \in DOMAIN tasks : Evolves(tasks[i], tasks'[i + 1])
            ELSE /\ Len(tasks') = Len(tasks)
                 /\ \A i \in DOMAIN tasks : Evolves(tasks[i], tasks'[i])
         /\ last'.op \notin {"task_received", "task_completed"} => tasks' = tasks
         /\ (last'.op = "task_completed" /\ ActiveTasks = {}) =>
              tasks' = tasks /\ subsystems'.agent = "online"
     ]_vars

\* The first task was completed by the second task_received, the second by a
\* task_completed; a further task_completed found no active task and changed
\* neither completedAt.
C23_Witness ==
  /\ last.op = "task_completed" /\ evCount = 4 /\ Len(tasks) = 2
  /\ tasks[1].status = "completed" /\ tasks[1].completedAt = 3
  /\ tasks[2].status = "completed" /\ tasks[2].completedAt = 2
  /\ subsystems.agent = "online" /\ ~raised /\ ~fatal

\* ------------------------------------------------------------------ C24

\* C24: the kill switch is two-step.  A click while disarmed arms the switch and
\* calls nothing; killAgent is called only by a click while armed, which disarms;
\* an armed switch is disarmed only by that click or by the timeout set by the
\* click that armed it, never by a timeout left from an earlier arming.
C24_TwoStepKill ==
  [][ /\ last'.op = "arm" =>
           /\ ~armed /\ armed'
           /\ handed' = handed /\ cmdCount' = cmdCount /\ subsystems' = subsystems
      /\ cmdCount' # cmdCount => armed /\ ~armed' /\ last'.op = "killAgent"
      /\ (armed /\ ~armed') =>
           \/ last'.op = "killAgent"
           \/ last'.op = "timeout" /\ last'.num = armedBy
    ]_vars

====
